---- MODULE Spec2Model ----
(***************************************************************************)
(* Elite::AStar<T_NodeType, T_ConnectionType>::FindPath (EAStar.h).        *)
(*                                                                         *)
(* One call of FindPath is modelled as a state machine: the open and the   *)
(* closed list, the current record, the position in the connection loop    *)
(* and in the reconstruction loop are the state; the graph, the heuristic  *)
(* and the two end points are chosen in Init and never change.             *)
(*                                                                         *)
(* Nodes are numbered from 1. A connection is a record [from, to, cost]; a *)
(* connection pointer is its position in m_pGraph, 0 is nullptr. Costs     *)
(* are naturals (the code's floats, without rounding). Spec searches every *)
(* graph of NumNodes nodes; SpecWide searches the acyclic graphs of one    *)
(* node more, where a closed record can be found stale.                    *)
(***************************************************************************)
EXTENDS Integers, Sequences, FiniteSets

\* Bounds of the model.
NumNodes == 3
MaxConns == 3
MaxCost == 1
MaxH == 1

VARIABLES
    m_pGraph,            \* the graph's connections, grouped by source node
    m_HeuristicFunction, \* node |-> heuristic cost from the node to the goal
    pStartNode,
    pGoalNode,
    openList,
    closedList,
    currentRecord,
    connectionList,      \* connections of the node under expansion
    c,                   \* position of the range-for over connectionList
    i,                   \* position of the for loop of the reconstruction
    path,
    minCandidate,        \* history: node |-> lowest gCost computed for it
    pc

vars == <<m_pGraph, m_HeuristicFunction, pStartNode, pGoalNode, openList,
          closedList, currentRecord, connectionList, c, i, path,
          minCandidate, pc>>

\* The nodes of the graph: those the heuristic is given for.
Nodes == DOMAIN m_HeuristicFunction

Connection(nodes) == [from : nodes, to : nodes, cost : 0 .. MaxCost]

\* The connections that lead from a node to a later one.
Forward(nodes) == {x \in Connection(nodes) : x.from < x.to}

\* No candidate gCost has been computed for the node yet.
NoCost == 0 - 1

\* The graphs of k connections taken from conns. Only the order among the
\* connections of one node is observable (GetNodeConnections), so the list
\* is kept grouped by source node.
GraphsOfLen(conns, k) ==
    {g \in [1 .. k -> conns] :
        \A a \in 1 .. k : \A b \in 1 .. k : a < b => g[a].from <= g[b].from}

Graphs(conns, n) == UNION {GraphsOfLen(conns, k) : k \in 0 .. n}

\* IGraph::GetNodeConnections: the connections leaving the node, in order.
RECURSIVE ConnectionsFrom(_, _, _)
ConnectionsFrom(g, n, k) ==
    IF k > Len(g) THEN <<>>
    ELSE IF g[k].from = n THEN <<k>> \o ConnectionsFrom(g, n, k + 1)
    ELSE ConnectionsFrom(g, n, k + 1)

GetNodeConnections(n) == ConnectionsFrom(m_pGraph, n, 1)

GetHeuristicCost(pNode, pEndNode) == m_HeuristicFunction[pNode]

NodeRecord(pNode, pConnection, gCost, fCost) ==
    [pNode |-> pNode, pConnection |-> pConnection,
     gCost |-> gCost, fCost |-> fCost]

\* NodeRecord::operator==
RecordEq(a, b) ==
    /\ a.pNode = b.pNode
    /\ a.pConnection = b.pConnection
    /\ a.gCost = b.gCost
    /\ a.fCost = b.fCost

\* vector::erase of the element at position k.
Erase(list, k) ==
    [j \in 1 .. (Len(list) - 1) |-> IF j < k THEN list[j] ELSE list[j + 1]]

RECURSIVE Reverse(_)
Reverse(s) == IF s = <<>> THEN <<>> ELSE Reverse(Tail(s)) \o <<Head(s)>>

\* 2.a: the first record of the list among those of lowest fCost.
LowestFCost(list) ==
    LET k == CHOOSE k \in 1 .. Len(list) :
                 /\ \A j \in 1 .. Len(list) : list[k].fCost <= list[j].fCost
                 /\ \A j \in 1 .. (k - 1) : list[j].fCost > list[k].fCost
    IN list[k]

\* 2.d: the closed list after the scan for the target of a connection.
IsInClosed(list, pNode) == \E k \in 1 .. Len(list) : list[k].pNode = pNode

ClosedStale(list, pNode, gCost) ==
    {k \in 1 .. Len(list) : list[k].pNode = pNode /\ list[k].gCost > gCost}

ClosedAfterScan(list, pNode, gCost) ==
    LET stale == ClosedStale(list, pNode, gCost)
    IN IF stale = {} THEN list
       ELSE Erase(list, CHOOSE k \in stale : \A j \in stale : k <= j)

\* 2.e: the open list after the scan for the target of a connection.
IsInOpen(list, pNode) == \E k \in 1 .. Len(list) : list[k].pNode = pNode

FirstOf(list, pNode) ==
    CHOOSE k \in 1 .. Len(list) :
        /\ list[k].pNode = pNode
        /\ \A j \in 1 .. (k - 1) : list[j].pNode # pNode

\* A slip of line 122: >= for >.
OpenIsStaleOrEqual(rec, gCost) == rec.gCost >= gCost

OpenIsStale(rec, gCost) == rec.gCost > gCost

OpenAfterScan(list, pNode, gCost) ==
    IF ~IsInOpen(list, pNode) THEN list
    ELSE LET k == FirstOf(list, pNode)
         IN IF OpenIsStale(list[k], gCost) THEN Erase(list, k) ELSE list

\* A slip of lines 131-134: the open list is not consulted.
AddsRecordUnlessClosed(closed, open, pNode) == ~IsInClosed(closed, pNode)

\* 2.f: whether the connection gets a new record in the open list.
AddsRecord(closed, open, pNode) ==
    /\ ~IsInClosed(closed, pNode)
    /\ ~IsInOpen(open, pNode)

\* 2.g: std::find(openList.begin(), openList.end(), currentRecord); 0 is end().
Find(list, rec) ==
    IF \E k \in 1 .. Len(list) : RecordEq(list[k], rec)
    THEN CHOOSE k \in 1 .. Len(list) :
             /\ RecordEq(list[k], rec)
             /\ \A j \in 1 .. (k - 1) : ~RecordEq(list[j], rec)
    ELSE 0

\* A slip of line 79: the goal test asks for a connection that leads to the goal.
IsGoalByConnection(rec) == rec.pConnection # 0 /\ rec.pNode = pGoalNode

\* 2.b: the record's node is the goal.
IsGoal(rec) == rec.pNode = pGoalNode

Min(a, b) == IF a < b THEN a ELSE b

\* The state after lines 53-63, for a graph, a heuristic and two end points.
Start(nodes, graphs, starts, goals) ==
    /\ m_pGraph \in graphs
    /\ m_HeuristicFunction \in [nodes -> 0 .. MaxH]
    /\ pStartNode \in starts
    /\ pGoalNode \in goals
    /\ currentRecord =
           NodeRecord(pStartNode, 0, 0, GetHeuristicCost(pStartNode, pGoalNode))
    /\ openList = <<currentRecord>>
    /\ closedList = <<>>
    /\ connectionList = <<>>
    /\ c = 0
    /\ i = 0
    /\ path = <<>>
    /\ minCandidate = [n \in nodes |-> NoCost]
    /\ pc = "while"

\* Every graph of NumNodes nodes and at most MaxConns connections, every
\* heuristic, every start and goal.
Init ==
    Start(1 .. NumNodes, Graphs(Connection(1 .. NumNodes), MaxConns),
          1 .. NumNodes, 1 .. NumNodes)

\* The acyclic graphs of one node and one connection more, searched from the
\* first node to the last.
InitWide ==
    Start(1 .. (NumNodes + 1), Graphs(Forward(1 .. (NumNodes + 1)), MaxConns + 1),
          {1}, {NumNodes + 1})

\* The while loop ends: the open list is empty. Step 3 starts.
OpenListEmpty ==
    /\ pc = "while"
    /\ openList = <<>>
    /\ path' = <<pGoalNode>>
    /\ i' = 0
    /\ pc' = "reconstruct"
    /\ UNCHANGED <<m_pGraph, m_HeuristicFunction, pStartNode, pGoalNode,
                   openList, closedList, currentRecord, connectionList, c,
                   minCandidate>>

\* 2.a, 2.b: the record of lowest fCost is the goal's: break. Step 3 starts.
GoalSelected ==
    /\ pc = "while"
    /\ openList # <<>>
    /\ IsGoal(LowestFCost(openList))
    /\ currentRecord' = LowestFCost(openList)
    /\ path' = <<pGoalNode>>
    /\ i' = 0
    /\ pc' = "reconstruct"
    /\ UNCHANGED <<m_pGraph, m_HeuristicFunction, pStartNode, pGoalNode,
                   openList, closedList, connectionList, c, minCandidate>>

\* 2.a - 2.c: the record of lowest fCost is selected for expansion.
SelectCurrent ==
    /\ pc = "while"
    /\ openList # <<>>
    /\ ~IsGoal(LowestFCost(openList))
    /\ currentRecord' = LowestFCost(openList)
    /\ connectionList' = GetNodeConnections(LowestFCost(openList).pNode)
    /\ c' = 1
    /\ pc' = "expand"
    /\ UNCHANGED <<m_pGraph, m_HeuristicFunction, pStartNode, pGoalNode,
                   openList, closedList, i, path, minCandidate>>

\* The candidate gCost of the connection the range-for is at.
Candidate == m_pGraph[connectionList[c]].cost + currentRecord.gCost

Target == m_pGraph[connectionList[c]].to

\* 2.d - 2.f: one pass of the range-for over connectionList.
ProcessConnection ==
    /\ pc = "expand"
    /\ c <= Len(connectionList)
    /\ LET pConnection == connectionList[c]
           gCost == Candidate
           pGetToNode == Target
           scanned == OpenAfterScan(openList, pGetToNode, gCost)
       IN /\ closedList' = ClosedAfterScan(closedList, pGetToNode, gCost)
          /\ openList' =
                 IF IsInClosed(closedList, pGetToNode) THEN openList
                 ELSE IF AddsRecord(closedList, openList, pGetToNode)
                 THEN Append(scanned,
                          NodeRecord(pGetToNode, pConnection, gCost,
                              gCost + GetHeuristicCost(pGetToNode, pGoalNode)))
                 ELSE scanned
          /\ minCandidate' =
                 [minCandidate EXCEPT ![pGetToNode] =
                     IF @ = NoCost THEN gCost ELSE Min(@, gCost)]
    /\ c' = c + 1
    /\ UNCHANGED <<m_pGraph, m_HeuristicFunction, pStartNode, pGoalNode,
                   currentRecord, connectionList, i, path, pc>>

\* 2.g: the current record moves from the open to the closed list.
MoveToClosed ==
    /\ pc = "expand"
    /\ c > Len(connectionList)
    /\ IF Find(openList, currentRecord) = 0
       THEN /\ pc' = "assertFailed"
            /\ UNCHANGED <<openList, closedList>>
       ELSE /\ openList' = Erase(openList, Find(openList, currentRecord))
            /\ closedList' = Append(closedList, currentRecord)
            /\ pc' = "while"
    /\ UNCHANGED <<m_pGraph, m_HeuristicFunction, pStartNode, pGoalNode,
                   currentRecord, connectionList, c, i, path, minCandidate>>

\* 3: one pass of the for loop inside while (currentRecord.pNode != pStartNode).
\* When the for loop ends without a match the while loop starts it again.
ReconstructStep ==
    /\ pc = "reconstruct"
    /\ currentRecord.pNode # pStartNode
    /\ IF currentRecord.pConnection = 0
       THEN /\ pc' = "nullDeref"
            /\ UNCHANGED <<currentRecord, i, path>>
       ELSE IF i >= Len(closedList)
       THEN /\ i' = 0
            /\ UNCHANGED <<currentRecord, path, pc>>
       ELSE IF closedList[i + 1].pNode = m_pGraph[currentRecord.pConnection].from
       THEN /\ path' = Append(path, closedList[i + 1].pNode)
            /\ currentRecord' = closedList[i + 1]
            /\ i' = 0
            /\ UNCHANGED pc
       ELSE /\ i' = i + 1
            /\ UNCHANGED <<currentRecord, path, pc>>
    /\ UNCHANGED <<m_pGraph, m_HeuristicFunction, pStartNode, pGoalNode,
                   openList, closedList, connectionList, c, minCandidate>>

\* std::reverse and return.
Return ==
    /\ pc = "reconstruct"
    /\ currentRecord.pNode = pStartNode
    /\ path' = Reverse(path)
    /\ pc' = "done"
    /\ UNCHANGED <<m_pGraph, m_HeuristicFunction, pStartNode, pGoalNode,
                   openList, closedList, currentRecord, connectionList, c, i,
                   minCandidate>>

Next ==
    \/ OpenListEmpty
    \/ GoalSelected
    \/ SelectCurrent
    \/ ProcessConnection
    \/ MoveToClosed
    \/ ReconstructStep
    \/ Return

Spec == Init /\ [][Next]_vars

SpecWide == InitWide /\ [][Next]_vars

\* FindPath is one sequential call: whenever a step can be taken, it is.
FairSpec == Spec /\ WF_vars(Next)

FairSpecWide == SpecWide /\ WF_vars(Next)

(***************************************************************************)
(* Properties.                                                             *)
(***************************************************************************)

\* The records of a list that describe the node.
RecordsOf(list, n) == {k \in 1 .. Len(list) : list[k].pNode = n}

\* C5: when start equals goal, FindPath returns the one-node sequence of that
\* node and expands nothing: no connection is looked at, nothing is closed.
C5_TrivialCase ==
    pStartNode = pGoalNode =>
        /\ pc \in {"while", "reconstruct", "done"}
        /\ closedList = <<>>
        /\ \A n \in Nodes : minCandidate[n] = NoCost
        /\ pc = "done" => path = <<pGoalNode>>

C5_Witness ==
    /\ pc = "done"
    /\ pStartNode = pGoalNode
    /\ Len(GetNodeConnections(pStartNode)) >= 2
    /\ path = <<pStartNode>>

\* C9: at every point of the call a node has at most one record in the open
\* and the closed list taken together.
C9_OneRecordPerNode ==
    \A n \in Nodes :
        Cardinality(RecordsOf(openList, n)) +
        Cardinality(RecordsOf(closedList, n)) <= 1

\* A connection to a node that already has a record has just been processed.
C9_Witness ==
    /\ pc = "expand"
    /\ c > 1
    /\ Len(openList) >= 2
    /\ closedList # <<>>
    /\ LET n == m_pGraph[connectionList[c - 1]].to
       IN /\ n # currentRecord.pNode
          /\ RecordsOf(openList, n) # {}
          /\ openList[Len(openList)].pNode # n

\* C10: the assertion of 2.g never fails: when the connections of the current
\* node have all been processed, the selected record is still in the open
\* list, unchanged.
C10_AssertHolds ==
    /\ pc # "assertFailed"
    /\ (pc = "expand" /\ c > Len(connectionList)) =>
           \E k \in 1 .. Len(openList) : openList[k] = currentRecord

\* The current node has a zero-cost self-loop and all its connections are done.
C10_Witness ==
    /\ pc = "expand"
    /\ c > Len(connectionList)
    /\ \E k \in 1 .. Len(connectionList) :
           /\ m_pGraph[connectionList[k]].to = currentRecord.pNode
           /\ m_pGraph[connectionList[k]].cost = 0
    /\ \E k \in 1 .. Len(openList) : openList[k] = currentRecord

\* The connections of the graph from node a to node b.
Joining(a, b) ==
    {k \in 1 .. Len(m_pGraph) : m_pGraph[k].from = a /\ m_pGraph[k].to = b}

\* More than the cost of any path without a repeated node.
Infinity == (MaxCost + 1) * (Len(m_pGraph) + 1)

\* One round of relaxation of the distances d from a source node.
Relax(d) ==
    [n \in Nodes |->
        LET via == {d[m_pGraph[k].from] + m_pGraph[k].cost :
                        k \in {j \in 1 .. Len(m_pGraph) : m_pGraph[j].to = n}}
        IN IF \E v \in via : v < d[n]
           THEN CHOOSE v \in via : \A w \in via : v <= w
           ELSE d[n]]

RECURSIVE RelaxTimes(_, _)
RelaxTimes(d, k) == IF k = 0 THEN d ELSE RelaxTimes(Relax(d), k - 1)

\* The reference: the cost of the cheapest path from a to b (Bellman-Ford),
\* Infinity or more when there is none.
ShortestCost(a, b) ==
    RelaxTimes([n \in Nodes |-> IF n = a THEN 0 ELSE Infinity],
               Cardinality(Nodes))[b]

Reachable(a, b) == ShortestCost(a, b) < Infinity

\* The heuristic never overestimates the cost that remains to the goal.
Admissible ==
    \A n \in Nodes :
        Reachable(n, pGoalNode) =>
            GetHeuristicCost(n, pGoalNode) <= ShortestCost(n, pGoalNode)

\* The heuristic respects the triangle inequality along every connection.
Consistent ==
    /\ GetHeuristicCost(pGoalNode, pGoalNode) = 0
    /\ \A k \in 1 .. Len(m_pGraph) :
           GetHeuristicCost(m_pGraph[k].from, pGoalNode) <=
               m_pGraph[k].cost + GetHeuristicCost(m_pGraph[k].to, pGoalNode)

\* The total connection cost of a node sequence, each step by its cheapest
\* connection; Infinity for a step no connection makes.
RECURSIVE PathCost(_)
PathCost(p) ==
    IF Len(p) <= 1 THEN 0
    ELSE LET ks == Joining(p[1], p[2])
             step == IF ks = {} THEN Infinity
                     ELSE m_pGraph[CHOOSE k \in ks :
                              \A j \in ks : m_pGraph[k].cost <= m_pGraph[j].cost].cost
         IN step + PathCost(Tail(p))

\* C1: with an admissible and consistent heuristic and a reachable goal, the
\* returned path costs what the cheapest path from start to goal costs.
C1_Optimality ==
    (pc = "done" /\ Consistent /\ Admissible /\ Reachable(pStartNode, pGoalNode)) =>
        PathCost(path) = ShortestCost(pStartNode, pGoalNode)

\* C2: when the open list runs empty and the goal was never selected, the
\* result is the empty (failure) result, never a node sequence.
C2_NoPathIsFailure ==
    (pc = "done" /\ ~Reachable(pStartNode, pGoalNode)) => path = <<>>

\* C4: every consecutive pair of the returned sequence is joined by a
\* connection from the first to the second.
C4_PathValidity ==
    pc = "done" =>
        \A k \in 1 .. (Len(path) - 1) : Joining(path[k], path[k + 1]) # {}

\* C8: the costSoFar of every closed record is at most every candidate gCost
\* computed so far for a connection leading to its node.
C8_ClosedIsLowest ==
    \A k \in 1 .. Len(closedList) :
        \/ minCandidate[closedList[k].pNode] = NoCost
        \/ closedList[k].gCost <= minCandidate[closedList[k].pNode]

\* The connection the range-for is at leads to a node with no closed record
\* and an open record of higher costSoFar than the candidate.
OpenImprovementCase ==
    /\ pc = "expand"
    /\ c <= Len(connectionList)
    /\ ~IsInClosed(closedList, Target)
    /\ \E k \in RecordsOf(openList, Target) : openList[k].gCost > Candidate

\* C6: once such a connection is processed, the stale record is gone and the
\* open list holds the target with the candidate gCost, its fCost and the
\* connection.
C6_OpenImprovement ==
    [][OpenImprovementCase =>
          /\ \A k \in 1 .. Len(openList') :
                 openList'[k].pNode = Target => openList'[k].gCost = Candidate
          /\ \E k \in 1 .. Len(openList') :
                 openList'[k] =
                     NodeRecord(Target, connectionList[c], Candidate,
                         Candidate + GetHeuristicCost(Target, pGoalNode))]_vars

\* The connection the range-for is at leads to a node with a closed record of
\* higher costSoFar than the candidate.
ReopeningCase ==
    /\ pc = "expand"
    /\ c <= Len(connectionList)
    /\ \E k \in RecordsOf(closedList, Target) : closedList[k].gCost > Candidate

\* C7: once such a connection is processed, the closed record is removed and
\* the target is back in the open list with the candidate gCost and the
\* connection.
C7_Reopening ==
    [][ReopeningCase =>
          /\ RecordsOf(closedList', Target) = {}
          /\ \E k \in 1 .. Len(openList') :
                 /\ openList'[k].pNode = Target
                 /\ openList'[k].gCost = Candidate
                 /\ openList'[k].pConnection = connectionList[c]]_vars

\* C3: every call returns.
C3_Termination == <>(pc = "done")

====
